---------------------------- MODULE Spec2Model ----------------------------
(***************************************************************************)
(* Model of the per-game streaming broadcaster of nba_commentary:          *)
(* GameService (backend/app/services/game_service.py) driven by the        *)
(* WebSocket route (backend/app/api/routes/streams.py) and the POST        *)
(* /{game_id}/stream route (backend/app/api/routes/games.py): Spec.        *)
(* SimulationNBAClient.get_play_by_play with its formatter                 *)
(* (backend/app/api/nba/simulation_client.py), which no route calls, has   *)
(* its own specification: SimSpec.  The users routes                       *)
(* (backend/app/api/routes/users.py: POST /register, POST /token) on the   *)
(* users table have theirs: UserSpec.  The ConnectionManager of            *)
(* backend/routers/streams.py is CmSpec, the menu and process_play of      *)
(* NBACommentarySystem (nba_commentary.py) CsSpec, MockNBAClient           *)
(* (backend/app/api/nba/mock_client.py) MockSpec, and                      *)
(* GameService.get_todays_games with RealNBAClient.get_games TodaysSpec.   *)
(*                                                                         *)
(* Everything runs on one asyncio event loop, so an action of the model is *)
(* the code one coroutine runs between two points where it really yields:  *)
(*   - start_game_stream has no await in its body, add_subscriber and      *)
(*     remove_subscriber are plain functions: each is atomic;              *)
(*   - asyncio.Queue() is unbounded, so `await subscriber.put(x)` never    *)
(*     yields; get_play_by_play is a blocking call (requests / time.sleep);*)
(*     the polling coroutine therefore yields only in asyncio.sleep;       *)
(*   - the WebSocket handler yields in websocket.accept, queue.get (empty  *)
(*     queue) and websocket.send_json.                                     *)
(***************************************************************************)
EXTENDS Integers, Sequences, FiniteSets, TLC

\* ------------------------------------------------------------------ bounds
NumConns == 2      \* WebSocket connections (each with its own asyncio.Queue)
MaxTasks == 2      \* polling tasks that have not ended, at any one time
MaxBroadcasts == 2 \* loop turns, over all tasks, that put items on queues
MaxPeriods == 2    \* length of the "periods" list of a simulation response
MaxEvents == 2     \* length of the "events" list of a period
MaxSelections == 2 \* games selected in the menu of NBACommentarySystem.run
MaxPlays == 2      \* plays processed by process_play, over all games
MaxPoints == 4     \* points scored in the mock game, both teams together
MaxCallsAfterFinish == 2 \* calls of the mock client after its first "finished"
MaxGames == 2      \* length of the "games" list of an upstream schedule

Games == {"G1", "G2"}
PostGames == {"G1"}    \* the game ids POST /{game_id}/stream is called with
Conns == 1..NumConns

\* ---------------------------------------------------------- python values
None == "None"

\* What nba_client.get_play_by_play can return: None (null = TRUE) on any
\* request failure, else the decoded JSON object, of which the loop reads
\* the keys "status" and "type" (None: the key is absent, so dict.get
\* returns None).
NullPayload == [null |-> TRUE, status |-> None, type |-> None]
Dict(s, ty) == [null |-> FALSE, status |-> s, type |-> ty]
Payloads ==
    {NullPayload,
     Dict("inprogress", None),
     Dict(None, "finished"), Dict(None, "game_over"),
     Dict("error", "finished"), Dict(None, "error"),
     Dict(None, "not_found"), Dict(None, "waiting")}

\* python truthiness of the values used here, and `a or b`
Truthy(x) == x \notin {None, ""}
PyOr(a, b) == IF Truthy(a) THEN a ELSE b

\* status = pbp_data.get("status") or pbp_data.get("type")
StatusOf(pbp) == PyOr(pbp.status, pbp.type)

\* an if/elif chain without the `elif status == "error"` branch
ClassifyNoError(pbp) ==
    LET status == StatusOf(pbp) IN
    IF status = "finished" \/ status = "game_over" THEN "FINISHED"
    ELSE IF status = "not_found" THEN "NOT_FOUND"
    ELSE IF status = "waiting" THEN "WAITING"
    ELSE "ACTIVE"

\* the branch of the if/elif chain the polling loop takes for a payload
Classify(pbp) ==
    LET status == StatusOf(pbp) IN
    IF status = "finished" \/ status = "game_over" THEN "FINISHED"
    ELSE IF status = "error" THEN "ERROR"
    ELSE IF status = "not_found" THEN "NOT_FOUND"
    ELSE IF status = "waiting" THEN "WAITING"
    ELSE "ACTIVE"

\* the seconds the loop sleeps at the end of a turn of each branch
\* (FINISHED breaks out of the loop without sleeping)
SleepFor(cls) ==
    CASE cls = "ERROR" -> 10
      [] cls = "NOT_FOUND" -> 30
      [] cls = "WAITING" -> 1
      [] OTHER -> 3

\* the dicts put on subscriber queues
GameOverMsg == [status |-> None, type |-> "game_over", message |-> "Game has ended"]
NotFoundMsg == [status |-> None, type |-> "waiting", message |-> "Waiting for game to start..."]
RawMsg(pbp) == [status |-> pbp.status, type |-> pbp.type, message |-> None]

\* every dict the loop can put on a queue
Messages == {GameOverMsg, NotFoundMsg} \cup {RawMsg(p) : p \in Payloads \ {NullPayload}}

\* a loop without the not_found branch: the payload itself is broadcast
MessageForNoNotFound(pbp) ==
    CASE Classify(pbp) = "FINISHED" -> GameOverMsg
      [] OTHER -> RawMsg(pbp)

\* the message the loop broadcasts for a payload (none for ERROR)
MessageFor(pbp) ==
    CASE Classify(pbp) = "FINISHED" -> GameOverMsg
      [] Classify(pbp) = "NOT_FOUND" -> NotFoundMsg
      [] OTHER -> RawMsg(pbp)

\* ------------------------------------- simulation client: python values
\* a key the dict does not have: of a string value, of a number value, of
\* a list value (a list that is there is kept with its items)
Absent == "absent"
AbsentNum == -1
AbsentList == [present |-> FALSE, items |-> <<>>]
List(items) == [present |-> TRUE, items |-> items]

\* the events of a period: a shot with every key the formatter reads, and
\* the empty dict
EvShot ==
    [clock |-> "05:30", description |-> "Layup", event_type |-> "shot",
     shot_type |-> "layup", shot_distance |-> "2", player |-> "P1"]
EvBare ==
    [clock |-> Absent, description |-> Absent, event_type |-> Absent,
     shot_type |-> Absent, shot_distance |-> Absent, player |-> Absent]
SimEvents == {EvShot, EvBare}

\* the sequences over S of length 0..n
SeqUpTo(S, n) == UNION {[1..k -> S] : k \in 0..n}

\* a period dict: its "number" and its "events" list
SimPeriods ==
    [number : {AbsentNum, 1, 3},
     events : {AbsentList} \cup {List(es) : es \in SeqUpTo(SimEvents, MaxEvents)}]

\* What SimulationNBAClient._make_request hands to get_play_by_play: an
\* exception (ValueError without a session, or one raised by requests),
\* None (a non-200 answer), or the decoded JSON object with the keys the
\* formatter reads: "id", "periods", "points" of "home" and of "away".
SimRaises == [kind |-> "raises"]
SimNone == [kind |-> "None"]
SimDicts ==
    [kind : {"dict"},
     id : {Absent, "G1"},
     periods : {AbsentList} \cup {List(ps) : ps \in SeqUpTo(SimPeriods, MaxPeriods)},
     home_points : {AbsentNum, 88},
     away_points : {AbsentNum, 85}]
SimResponses == {SimRaises, SimNone} \cup SimDicts

\* `not data`: None and the empty dict are falsy
SimFalsy(data) ==
    \/ data.kind = "None"
    \/ /\ data.kind = "dict"
       /\ data.id = Absent /\ data.periods = AbsentList
       /\ data.home_points = AbsentNum /\ data.away_points = AbsentNum

\* dict.get(key, default) on a modelled key
GetOr(v, default) == IF v = Absent THEN default ELSE v
GetNumOr(v, default) == IF v = AbsentNum THEN default ELSE v
GetListOr(v, default) == IF v.present THEN v.items ELSE default

\* ------------------------------------------------------------------ state
VARIABLES
    active_streams,  \* GameService.active_streams: game id -> channel dict
    tasks,           \* the asyncio tasks made by start_game_stream, by slot
    conn,            \* per WebSocket connection: position of its handler
    sink,            \* per connection: the items in its asyncio.Queue
    nbroadcast,      \* loop turns so far that put items on queues
    sim_data,        \* simulation client: what _make_request returned last
    sim_result,      \* simulation client: what get_play_by_play returned last
    users,           \* the rows of the users table, in id order
    http,            \* users routes: the last request and its response
    http_prev,       \* users routes: the exchange before that one
    active_connections, \* ConnectionManager.active_connections: game id -> set
    ws,              \* per connection of /ws/game/{game_id}: its handler
    run_pc,          \* NBACommentarySystem.run: where it stands
    active_game_id,  \* NBACommentarySystem.active_game_id
    watch_tasks,     \* per game: the watch_game tasks that have not ended
    game_states,     \* NBACommentarySystem.games: game id -> GameState
    chat_pending,    \* per game: process_play calls awaiting the chat answer
    last_call,       \* the last call of process_play: its play and outcome
    mock,            \* MockNBAClient: game_clock, quarter, home_score, away_score
    mock_result,     \* MockNBAClient: what get_play_by_play returned last
    mock_after,      \* calls made since "finished" was first returned, -1 before
    todays           \* the last call of get_todays_games: date, request, answer

vars == <<active_streams, tasks, conn, sink, nbroadcast, sim_data, sim_result,
          users, http, http_prev, active_connections, ws,
          run_pc, active_game_id, watch_tasks, game_states, chat_pending, last_call,
          mock, mock_result, mock_after, todays>>
simvars == <<sim_data, sim_result>>
gsvars == <<active_streams, tasks, conn, sink, nbroadcast>>
uservars == <<users, http, http_prev>>
cmvars == <<active_connections, ws>>
csvars == <<run_pc, active_game_id, watch_tasks, game_states, chat_pending, last_call>>
mockvars == <<mock, mock_result, mock_after>>
todaysvars == <<todays>>

\* what the actions of one component leave alone: the other components
notgs == <<simvars, uservars, cmvars, csvars, mockvars, todaysvars>>
notsim == <<gsvars, uservars, cmvars, csvars, mockvars, todaysvars>>
notuser == <<gsvars, simvars, cmvars, csvars, mockvars, todaysvars>>
notcm == <<gsvars, simvars, uservars, csvars, mockvars, todaysvars>>
notcs == <<gsvars, simvars, uservars, cmvars, mockvars, todaysvars>>
notmock == <<gsvars, simvars, uservars, cmvars, csvars, todaysvars>>
nottodays == <<gsvars, simvars, uservars, cmvars, csvars, mockvars>>

\* the handler of a /ws/game/{game_id} connection that has not been opened:
\* pc is where the handler stands, phase the block of game_commentary it
\* broadcasts from ("try" or "except"), and while a broadcast is under way
\* start is the set as it was when the for loop began, visited the
\* connections sent to, target the one being sent to, and alive tells
\* that the set object being iterated is still the one in the map
NoHandler ==
    [pc |-> "idle", game |-> None, phase |-> None,
     start |-> {}, visited |-> {}, target |-> 0, alive |-> TRUE]

\* GameState as run creates it: __post_init__ puts the system prompt in the
\* conversation history and makes an empty audio queue (its length is kept)
SystemPrompt == [role |-> "system"]
NewGameState ==
    [last_play_id |-> None, current_period |-> 1, home_score |-> 0,
     away_score |-> 0, conversation_history |-> <<SystemPrompt>>, audio_queue |-> 0]

\* process_play has not been called
NoCall == [called |-> FALSE, game |-> None, id |-> None, skipped |-> FALSE,
           prev_id |-> None, processed_before |-> 0]

\* MockNBAClient.__init__, and the numbers of its get_play_by_play
QuarterSeconds == 720
MinTick == 10
MaxTick == 30
LastQuarter == 4
NewMock == [game_clock |-> QuarterSeconds, quarter |-> 1, home_score |-> 0, away_score |-> 0]
NoMockResult ==
    [kind |-> "none", clock |-> <<0, 0>>, quarter |-> 0,
     home_score |-> 0, away_score |-> 0, team |-> None]

\* get_todays_games has not been called
NoTodaysCall ==
    [called |-> FALSE, date |-> <<0, 0, 0>>, passed |-> <<>>, requested |-> FALSE,
     endpoint |-> <<>>, upstream |-> [ok |-> FALSE, games |-> AbsentList],
     returned |-> <<>>]

\* no request has been made to the users routes
NoExchange == [route |-> "none", username |-> Absent, password |-> Absent,
               status |-> 0, sub |-> Absent]

\* no call of SimulationNBAClient.get_play_by_play has been made
SimNoCall == [kind |-> "none"]
SimNoResult == [type |-> "none"]

\* A slot holds a task from asyncio.create_task until its coroutine has
\* ended; nothing refers to an ended task any more (TypeOK), so its slot
\* is free again.
Slots == 1..MaxTasks
NoTask == [game |-> None, pc |-> "none", must_cancel |-> FALSE, ncancel |-> 0]

\* a task is live until its coroutine has ended
Live(t) == tasks[t].pc # "none"
TaskIds == {t \in Slots : Live(t)}

Init ==
    /\ active_streams = <<>>
    /\ tasks = [t \in Slots |-> NoTask]
    /\ conn = [c \in Conns |-> [pc |-> "idle", game |-> None, raised |-> None]]
    /\ sink = [c \in Conns |-> <<>>]
    /\ nbroadcast = 0
    /\ sim_data = SimNoCall
    /\ sim_result = SimNoResult
    /\ users = <<>>
    /\ http = NoExchange
    /\ http_prev = NoExchange
    /\ active_connections = <<>>
    /\ ws = [c \in Conns |-> NoHandler]
    /\ run_pc = "menu"
    /\ active_game_id = None
    /\ watch_tasks = [g \in Games |-> 0]
    /\ game_states = [g \in Games |-> NewGameState]
    /\ chat_pending = [g \in Games |-> 0]
    /\ last_call = NoCall
    /\ mock = NewMock
    /\ mock_result = NoMockResult
    /\ mock_after = -1
    /\ todays = NoTodaysCall

\* ------------------------------------------------- dict and queue helpers
DictDel(d, k) == [x \in DOMAIN d \ {k} |-> d[x]]
DictSet(d, k, v) == [x \in DOMAIN d \cup {k} |-> IF x = k THEN v ELSE d[x]]

\* a put on a queue of capacity one: an item offered to a full queue is not
\* taken
PutBounded(q, item) == IF q = <<>> THEN Append(q, item) ELSE q

\* asyncio.Queue.put on an unbounded queue: append, never waits
Put(q, item) == Append(q, item)

\* a broadcast that walks every open queue instead of the subscriber set
BroadcastToAll(sk, subs, msg) == [c \in Conns |-> Put(sk[c], msg)]

\* a broadcast that stops after the first subscriber of the set
BroadcastFirstOnly(sk, subs, msg) ==
    [c \in Conns |->
        IF c \in subs /\ \A d \in subs : c <= d THEN Put(sk[c], msg) ELSE sk[c]]

\* `for subscriber in subscribers: await subscriber.put(msg)`
Broadcast(sk, subs, msg) ==
    [c \in Conns |-> IF c \in subs THEN Put(sk[c], msg) ELSE sk[c]]

\* asyncio.create_task(self._stream_game_updates(game_id))
NewTask(g) == [game |-> g, pc |-> "new", must_cancel |-> FALSE, ncancel |-> 0]

\* the slot the next task is put in
FreeSlot(ts) ==
    CHOOSE t \in Slots :
        ts[t].pc = "none" /\ \A u \in Slots : ts[u].pc = "none" => t <= u
HasFreeSlot(ts) == \E t \in Slots : ts[t].pc = "none"

\* Task.cancel(): no effect on a finished task, else request cancellation
CancelTask(ts, t) ==
    IF ts[t].pc = "none" THEN ts
    ELSE [ts EXCEPT ![t].must_cancel = TRUE, ![t].ncancel = @ + 1]

\* ------------------------------------------------- GameService operations
\* start_game_stream: the channel map and the tasks after the call (the
\* "queue" of the new entry is never put to nor read, and is left out)
StartStreams(as, ts, g) ==
    IF g \notin DOMAIN as
    THEN DictSet(as, g, [task |-> FreeSlot(ts), subscribers |-> {}])
    ELSE as
\* a start_game_stream that creates a task whenever it is called
StartTasksAlways(as, ts, g) ==
    IF HasFreeSlot(ts) THEN [ts EXCEPT ![FreeSlot(ts)] = NewTask(g)] ELSE ts

StartTasks(as, ts, g) ==
    IF g \notin DOMAIN as THEN [ts EXCEPT ![FreeSlot(ts)] = NewTask(g)] ELSE ts

\* an add_subscriber that creates the channel it does not find
AddSubscriberCreates(as, g, q) ==
    IF g \in DOMAIN as
    THEN [as EXCEPT ![g].subscribers = @ \cup {q}]
    ELSE DictSet(as, g, [task |-> 1, subscribers |-> {q}])

\* add_subscriber
AddSubscriber(as, g, q) ==
    IF g \in DOMAIN as
    THEN [as EXCEPT ![g].subscribers = @ \cup {q}]
    ELSE as

\* remove_subscriber: set.remove raises KeyError for a missing element
RemoveRaises(as, g, q) == g \in DOMAIN as /\ q \notin as[g].subscribers
RemoveStreams(as, g, q) ==
    IF g \in DOMAIN as /\ q \in as[g].subscribers
    THEN IF as[g].subscribers \ {q} = {}
         THEN DictDel(as, g)
         ELSE [as EXCEPT ![g].subscribers = @ \ {q}]
    ELSE as
RemoveTasks(as, ts, g, q) ==
    IF g \in DOMAIN as /\ q \in as[g].subscribers /\ as[g].subscribers \ {q} = {}
    THEN CancelTask(ts, as[g].task)
    ELSE ts

\* ------------------------------------------------------- transport actions
\* websocket_endpoint after accept(): add_subscriber, then start_game_stream,
\* then the handler waits in queue.get()
Join(c, g) ==
    /\ conn[c].pc = "idle"
    /\ g \notin DOMAIN active_streams => HasFreeSlot(tasks)
    /\ LET as1 == AddSubscriber(active_streams, g, c) IN
       /\ active_streams' = StartStreams(as1, tasks, g)
       /\ tasks' = StartTasks(as1, tasks, g)
    /\ conn' = [conn EXCEPT ![c] = [pc |-> "get", game |-> g, raised |-> None]]
    /\ UNCHANGED <<sink, nbroadcast>>
    /\ UNCHANGED notgs

\* POST /{game_id}/stream
PostStream(g) ==
    /\ g \notin DOMAIN active_streams => HasFreeSlot(tasks)
    /\ active_streams' = StartStreams(active_streams, tasks, g)
    /\ tasks' = StartTasks(active_streams, tasks, g)
    /\ UNCHANGED <<conn, sink, nbroadcast>>
    /\ UNCHANGED notgs

\* asyncio.Queue.get on a non-empty queue: the head leaves the queue
Get(q) == Tail(q)

\* `data = await queue.get()` returns the head of the queue and
\* websocket.send_json(data) succeeds
SendOK(c) ==
    /\ conn[c].pc = "get"
    /\ sink[c] # <<>>
    /\ sink' = [sink EXCEPT ![c] = Get(@)]
    /\ UNCHANGED <<active_streams, tasks, conn, nbroadcast>>
    /\ UNCHANGED notgs

\* `data = await queue.get()` returns the head of the queue and
\* websocket.send_json(data) raises (WebSocketDisconnect or any other
\* Exception): the finally block calls remove_subscriber and the handler
\* ends, with KeyError when remove_subscriber raised it. The handler held
\* the last reference to its queue, which goes with it.
SendFail(c) ==
    /\ conn[c].pc = "get"
    /\ sink[c] # <<>>
    /\ LET g == conn[c].game IN
       /\ active_streams' = RemoveStreams(active_streams, g, c)
       /\ tasks' = RemoveTasks(active_streams, tasks, g, c)
       /\ conn' = [conn EXCEPT ![c].pc = "closed",
                               ![c].raised = IF RemoveRaises(active_streams, g, c)
                                             THEN "KeyError" ELSE None]
    /\ sink' = [sink EXCEPT ![c] = <<>>]
    /\ UNCHANGED nbroadcast
    /\ UNCHANGED notgs

\* ------------------------------------------------------- the polling task
\* a finally block that leaves the entry in the map
CleanupKeepsEntry(as, g) == as

\* a finally block that clears the whole map
CleanupClearsMap(as, g) == [x \in {} |-> as[x]]

\* the finally block of _stream_game_updates
Cleanup(as, g) == IF g \in DOMAIN as THEN DictDel(as, g) ELSE as

\* a coroutine that swallows its exception inside the loop and sleeps again
EndedKeepsPolling(task) == [task EXCEPT !.pc = "sleep", !.must_cancel = FALSE]

\* the task after its coroutine has ended, whatever way it ended
Ended(task) == NoTask

\* the coroutine's frame suspended in asyncio.sleep
Sleeping(task) == [task EXCEPT !.pc = "sleep"]

\* One turn of the `while True` loop, from the start of the coroutine or
\* from the return of asyncio.sleep up to the next asyncio.sleep or to the
\* end of the coroutine; p is what get_play_by_play returns.
\*   p is None              -> pbp_data.get raises AttributeError
\*   ERROR                  -> sleep(10), nothing is broadcast
\*   any other class        -> self.active_streams[game_id] raises KeyError
\*                             when the entry is gone, else the broadcast
\*   FINISHED               -> break
\* Every way out of the try block runs the finally block (Cleanup).
Poll(t, p) ==
    /\ t \in TaskIds
    /\ tasks[t].pc \in {"new", "sleep"}
    /\ ~tasks[t].must_cancel
    /\ UNCHANGED conn
    /\ UNCHANGED notgs
    /\ LET g == tasks[t].game
           cls == Classify(p)
           has == g \in DOMAIN active_streams
       IN  IF p.null
           THEN /\ active_streams' = Cleanup(active_streams, g)
                /\ tasks' = [tasks EXCEPT ![t] = Ended(@)]
                /\ UNCHANGED <<sink, nbroadcast>>
           ELSE IF cls = "ERROR"
           THEN /\ tasks' = [tasks EXCEPT ![t] = Sleeping(@)]
                /\ UNCHANGED <<active_streams, sink, nbroadcast>>
           ELSE IF ~has
           THEN /\ tasks' = [tasks EXCEPT ![t] = Ended(@)]
                /\ UNCHANGED <<active_streams, sink, nbroadcast>>
           ELSE /\ active_streams[g].subscribers # {} => nbroadcast < MaxBroadcasts
                /\ nbroadcast' = IF active_streams[g].subscribers # {}
                                 THEN nbroadcast + 1 ELSE nbroadcast
                /\ sink' = Broadcast(sink, active_streams[g].subscribers, MessageFor(p))
                /\ IF cls = "FINISHED"
                   THEN /\ active_streams' = Cleanup(active_streams, g)
                        /\ tasks' = [tasks EXCEPT ![t] = Ended(@)]
                   ELSE /\ tasks' = [tasks EXCEPT ![t] = Sleeping(@)]
                        /\ UNCHANGED active_streams

\* The event loop steps a task whose cancellation was requested.
\*   not yet started: CancelledError is thrown into the unstarted coroutine,
\*     so neither the try block nor the finally block runs;
\*   suspended in asyncio.sleep: CancelledError is raised there, swallowed by
\*     `except asyncio.CancelledError: pass`, and the finally block runs.
Cancelled(t) ==
    /\ t \in TaskIds
    /\ tasks[t].pc \in {"new", "sleep"}
    /\ tasks[t].must_cancel
    /\ active_streams' = IF tasks[t].pc = "sleep"
                         THEN Cleanup(active_streams, tasks[t].game)
                         ELSE active_streams
    /\ tasks' = [tasks EXCEPT ![t] = Ended(@)]
    /\ UNCHANGED <<conn, sink, nbroadcast>>
    /\ UNCHANGED notgs

\* ------------------------------------------------- the simulation client
\* max(data['periods'], key=lambda p: p.get('number', 0)): the first
\* period of the list whose key is the largest
PeriodKey(p) == GetNumOr(p.number, 0)

\* taking the last period of the list for the current one
LastPeriod(periods) == periods[Len(periods)]

CurrentPeriod(periods) ==
    LET i == CHOOSE i \in 1..Len(periods) :
                 /\ \A j \in 1..Len(periods) :
                        PeriodKey(periods[j]) <= PeriodKey(periods[i])
                 /\ \A j \in 1..(i - 1) :
                        PeriodKey(periods[j]) < PeriodKey(periods[i])
    IN  periods[i]

\* the description of the play: the event's description or the placeholder,
\* the shot details appended for a shot that has both, the name of the
\* player of the first statistic that has one put in front; kept as the
\* three parts <<player, text, shot details>>, <<>> for no shot details
PlayDescription(ev) ==
    <<ev.player,
      GetOr(ev.description, "No description available"),
      IF ev.event_type = "shot" /\ ev.shot_type # Absent /\ ev.shot_distance # Absent
      THEN <<ev.shot_type, ev.shot_distance>> ELSE <<>>>>

SimError(msg) == [type |-> "error", message |-> msg]
SimWaiting(msg) == [type |-> "waiting", message |-> msg]

\* _format_play_by_play (of last_play, the description is kept)
FormatPlayByPlay(data) ==
    IF SimFalsy(data) THEN SimError("No data received from API")
    ELSE IF GetListOr(data.periods, <<>>) = <<>>
    THEN SimWaiting("No periods data available")
    ELSE LET current_period == CurrentPeriod(data.periods.items)
             events == GetListOr(current_period.events, <<>>)
         IN  IF events = <<>>
             THEN SimWaiting("No events in current period")
             ELSE LET latest_event == events[Len(events)] IN
                  [type |-> "play",
                   game_id |-> GetOr(data.id, "unknown"),
                   clock |-> GetOr(latest_event.clock, "00:00"),
                   quarter |-> GetNumOr(current_period.number, 1),
                   home_score |-> GetNumOr(data.home_points, 0),
                   away_score |-> GetNumOr(data.away_points, 0),
                   description |-> PlayDescription(latest_event)]

\* the value SimulationNBAClient.get_play_by_play returns
GetPlayByPlay(data) ==
    IF data.kind = "raises"
    THEN SimError("Failed to fetch play-by-play data: exception")
    ELSE IF SimFalsy(data)
    THEN SimError("Failed to fetch play-by-play data")
    ELSE FormatPlayByPlay(data)

\* A call of SimulationNBAClient.get_play_by_play, data being what
\* _make_request hands back. The method reads and writes no field that an
\* earlier call wrote, so the first call of a client shows every result.
SimGetPlayByPlay(data) ==
    /\ sim_data = SimNoCall
    /\ sim_data' = data
    /\ sim_result' = GetPlayByPlay(data)
    /\ UNCHANGED notsim

\* ------------------------------------------------------------ users routes
\* The requests the users routes are given: two user names, two e-mail
\* addresses and two passwords, so that a name or an address can be taken
\* by another row and a password can differ from the stored one.
Usernames == {"testuser", "otheruser"}
Emails == {"test@example.com", "other@example.com"}
Passwords == {"testpass123", "otherpass456"}

\* pwd_context.hash / pwd_context.verify (bcrypt): a hash is not the
\* password, and verify accepts exactly the password the hash was made of
HashPassword(pw) == [scheme |-> "bcrypt", secret |-> pw]
VerifyPassword(pw, hashed) == hashed = HashPassword(pw)

\* SELECT * FROM users WHERE username = ?  (username is UNIQUE)
RowsByUsername(rows, u) == {i \in DOMAIN rows : rows[i].username = u}

\* SELECT id FROM users WHERE username = ? OR email = ?
RowsByUsernameOrEmail(rows, u, e) ==
    {i \in DOMAIN rows : rows[i].username = u \/ rows[i].email = e}

\* a register that commits no row
RegisterRowsNoInsert(rows, u, e, pw) == rows

\* INSERT INTO users (username, email, full_name, hashed_password) and commit
RegisterRows(rows, u, e, pw) ==
    Append(rows, [id |-> Len(rows) + 1, username |-> u, email |-> e,
                  hashed_password |-> HashPassword(pw)])

Exchange(route, u, pw, status, sub) ==
    [route |-> route, username |-> u, password |-> pw, status |-> status, sub |-> sub]

\* POST /register. A row with that username or that e-mail answers 400.
\* Otherwise the row is inserted and committed, and the handler then reads
\* db.last_row_id to build its answer: 200 when the connection object has
\* that attribute, 500 (AttributeError) when it has not; the row is in the
\* table either way.
RegisterUser(u, e, pw) ==
    /\ http_prev' = http
    /\ IF RowsByUsernameOrEmail(users, u, e) # {}
       THEN /\ http' = Exchange("register", u, pw, 400, Absent)
            /\ UNCHANGED users
       ELSE /\ users' = RegisterRows(users, u, e, pw)
            /\ \E st \in {200, 500} : http' = Exchange("register", u, pw, st, Absent)
    /\ UNCHANGED notuser

\* POST /token: 401 when no row has the username or the password does not
\* verify against the row's hash, else 200 with a token whose sub is the
\* row's username.
LoginForAccessToken(u, pw) ==
    /\ http_prev' = http
    /\ LET found == RowsByUsername(users, u) IN
       IF found = {} \/ \A i \in found : ~VerifyPassword(pw, users[i].hashed_password)
       THEN http' = Exchange("token", u, pw, 401, Absent)
       ELSE http' = Exchange("token", u, pw, 200,
                             users[CHOOSE i \in found : TRUE].username)
    /\ UNCHANGED users
    /\ UNCHANGED notuser

\* ------------------------------------------------------ ConnectionManager
\* connect, after websocket.accept(): create the set if needed, add
CmConnect(ac, c, g) ==
    IF g \in DOMAIN ac
    THEN [ac EXCEPT ![g] = @ \cup {c}]
    ELSE DictSet(ac, g, {c})

\* a disconnect that leaves the emptied set in the map
CmDisconnectKeepsKey(ac, c, g) == [ac EXCEPT ![g] = @ \ {c}]

\* disconnect: remove from the set, delete the key of an emptied set
CmDisconnect(ac, c, g) ==
    IF ac[g] \ {c} = {} THEN DictDel(ac, g) ELSE [ac EXCEPT ![g] = @ \ {c}]

\* where a handler stands once its broadcast is over: back in receive_text
\* after the one of the try block, returned after the one of the except
\* block
AfterBroadcast(h) ==
    [NoHandler EXCEPT !.pc = IF h.phase = "try" THEN "recv" ELSE "closed",
                      !.game = h.game, !.phase = h.phase]

\* an exception leaves game_commentary: out of the try block the connection
\* is still in its set (only WebSocketDisconnect is caught), out of the
\* except block it is not
Failed(h) == [NoHandler EXCEPT !.pc = "failed", !.game = h.game, !.phase = h.phase]

\* the handler awaits send_text to e, one more step of its for loop
Sending(h, e) == [h EXCEPT !.pc = "send", !.target = e]

\* the socket of e is no longer open: its handler has returned or failed
\* or is in its except block
Gone(e) == ws[e].pc \in {"failed", "closed"} \/ ws[e].phase = "except"

\* set iterator, `next`: RuntimeError when the size of the set object
\* differs from its size when the iteration began (an object no longer in
\* the map was emptied before its key was deleted)
SizeChanged(ac, h) ==
    \/ ~h.alive
    \/ h.game \notin DOMAIN ac
    \/ Cardinality(ac[h.game]) # Cardinality(h.start)

\* the objects being iterated by other handlers when the key of g is deleted
Orphan(w, g, deleted) ==
    [c \in Conns |->
        IF deleted /\ w[c].pc = "send" /\ w[c].game = g
        THEN [w[c] EXCEPT !.alive = FALSE] ELSE w[c]]

\* manager.connect(websocket, game_id): game_commentary up to receive_text
CmOpen(c, g) ==
    /\ ws[c].pc = "idle"
    /\ active_connections' = CmConnect(active_connections, c, g)
    /\ ws' = [ws EXCEPT ![c] = [NoHandler EXCEPT !.pc = "recv", !.game = g, !.phase = "try"]]
    /\ UNCHANGED notcm

\* broadcast begins in handler c (w and ac being the state it begins in):
\* nothing to do without a key (or for an empty set), else the for loop
\* takes a first connection of the set and awaits send_text
BeginBroadcast(c, w, ac, phase) ==
    LET g == w[c].game
        h == [NoHandler EXCEPT !.game = g, !.phase = phase]
    IN  IF g \notin DOMAIN ac \/ ac[g] = {}
        THEN ws' = [w EXCEPT ![c] = AfterBroadcast(h)]
        ELSE \E e \in ac[g] :
                ws' = [w EXCEPT ![c] = Sending([h EXCEPT !.start = ac[g]], e)]

\* receive_text returns a text: the handler broadcasts it
CmReceive(c) ==
    /\ ws[c].pc = "recv"
    /\ BeginBroadcast(c, ws, active_connections, "try")
    /\ UNCHANGED active_connections
    /\ UNCHANGED notcm

\* the except block: disconnect, then broadcast "Client disconnected"
CmLeave(c) ==
    LET g == ws[c].game
        ac == CmDisconnect(active_connections, c, g)
        w == Orphan(ws, g, g \notin DOMAIN ac)
    IN  /\ active_connections' = ac
        /\ BeginBroadcast(c, w, ac, "except")

\* receive_text raises WebSocketDisconnect: the client has gone
CmClientGone(c) ==
    /\ ws[c].pc = "recv"
    /\ CmLeave(c)
    /\ UNCHANGED notcm

\* The awaited send_text of handler c returns, and the for loop asks the
\* set iterator for the next connection: RuntimeError if the set changed
\* size meanwhile; the end of the loop when every connection of the set
\* has been sent to (or earlier, when the set was changed to another of the
\* same size, where the iterator may pass over a newcomer); else the next
\* send.
CmSent(c) ==
    /\ ws[c].pc = "send"
    /\ UNCHANGED active_connections
    /\ LET h == [ws[c] EXCEPT !.visited = @ \cup {ws[c].target}]
           rest == IF h.game \in DOMAIN active_connections
                   THEN active_connections[h.game] \ h.visited ELSE {}
       IN  IF SizeChanged(active_connections, h)
           THEN ws' = [ws EXCEPT ![c] = Failed(h)]
           ELSE \/ /\ rest = {} \/ h.visited \ active_connections[h.game] # {}
                   /\ ws' = [ws EXCEPT ![c] = AfterBroadcast(h)]
                \/ \E e \in rest : ws' = [ws EXCEPT ![c] = Sending(h, e)]
    /\ UNCHANGED notcm

\* The awaited send_text of handler c fails because the socket it writes to
\* is no longer open. What is raised depends on the installed
\* Starlette/uvicorn: WebSocketDisconnect, which the try block of
\* game_commentary catches (the handler then runs its except block), or
\* another exception, which ends the handler.
CmSendRaises(c, exc) ==
    /\ ws[c].pc = "send"
    /\ Gone(ws[c].target)
    /\ IF exc = "WebSocketDisconnect" /\ ws[c].phase = "try"
       THEN CmLeave(c)
       ELSE /\ ws' = [ws EXCEPT ![c] = Failed(ws[c])]
            /\ UNCHANGED active_connections
    /\ UNCHANGED notcm

\* --------------------------------------------------- NBACommentarySystem
\* The plays handed to process_play: the last event of the last period of
\* a play-by-play answer, with or without its "id", its period number and
\* its points.
Plays ==
    [id : {None, "p1", "p2"}, period : {AbsentNum, 2},
     home_points : {AbsentNum, 10}, away_points : {AbsentNum, 8}]

\* the user entries of a history: one per processed play
Processed(gs) ==
    Cardinality({i \in DOMAIN gs.conversation_history :
                    gs.conversation_history[i].role = "user"})

RECURSIVE SumOver(_, _)
SumOver(f, S) ==
    IF S = {} THEN 0
    ELSE LET x == CHOOSE x \in S : TRUE IN f[x] + SumOver(f, S \ {x})
ProcessedInAll(gss) == SumOver([g \in Games |-> Processed(gss[g])], Games)

\* process_play, its test `play_id == game_state.last_play_id`, play_id
\* being play.get("id"): None for a play without the key
SkipsPlay(gs, play) == play.id = gs.last_play_id

\* process_play up to its await of the chat: the state update and the user
\* entry of the history (of an entry, the role is kept)
UpdateGameState(gs, play) ==
    LET period == GetNumOr(play.period, gs.current_period)
        home == GetNumOr(play.home_points, gs.home_score)
        away == GetNumOr(play.away_points, gs.away_score)
    IN  [gs EXCEPT !.last_play_id = play.id,
                   !.current_period = period,
                   !.home_score = home,
                   !.away_score = away,
                   !.conversation_history =
                       Append(@, [role |-> "user"])]

\* run: a valid game number is entered in the menu; the game becomes the
\* active one and a watch_game task is created for every game. (Any other
\* input than a valid number or q prints a message and asks again.)
CsSelect(g) ==
    /\ run_pc = "menu"
    /\ \A h \in Games : watch_tasks[h] < MaxSelections
    /\ run_pc' = "watching"
    /\ active_game_id' = g
    /\ watch_tasks' = [h \in Games |-> watch_tasks[h] + 1]
    /\ UNCHANGED <<game_states, chat_pending, last_call>>
    /\ UNCHANGED notcs

\* run: Enter while watching breaks out of the input loop, back to the
\* menu; the tasks of the list `tasks` are left as they are
CsEnter ==
    /\ run_pc = "watching"
    /\ run_pc' = "menu"
    /\ UNCHANGED <<active_game_id, watch_tasks, game_states, chat_pending, last_call>>
    /\ UNCHANGED notcs

\* run: q, in the menu or while watching (where the tasks of this
\* selection are cancelled and awaited first); run returns and asyncio.run
\* cancels whatever task is left
CsQuit ==
    /\ run_pc \in {"menu", "watching"}
    /\ run_pc' = "done"
    /\ watch_tasks' = [h \in Games |-> 0]
    /\ chat_pending' = [h \in Games |-> 0]
    /\ UNCHANGED <<active_game_id, game_states, last_call>>
    /\ UNCHANGED notcs

\* One turn of a watch_game task of the active game, the fetch having
\* answered with a latest play: process_play up to its first await.
CsProcessPlay(g, play) ==
    /\ run_pc # "done"
    /\ watch_tasks[g] > chat_pending[g]
    /\ active_game_id = g
    /\ last_call' = [called |-> TRUE, game |-> g, id |-> play.id,
                     skipped |-> SkipsPlay(game_states[g], play),
                     prev_id |-> game_states[g].last_play_id,
                     processed_before |-> Processed(game_states[g])]
    /\ IF SkipsPlay(game_states[g], play)
       THEN UNCHANGED <<game_states, chat_pending>>
       ELSE /\ ProcessedInAll(game_states) < MaxPlays
            /\ game_states' = [game_states EXCEPT ![g] = UpdateGameState(@, play)]
            /\ chat_pending' = [chat_pending EXCEPT ![g] = @ + 1]
    /\ UNCHANGED <<run_pc, active_game_id, watch_tasks>>
    /\ UNCHANGED notcs

\* The chat of a process_play call answers: the commentary is appended to
\* the history and, if the game is the active one at that time and the
\* audio could be generated, its audio is put on the queue. An exception
\* of the chat is printed and nothing else.
CsCommentary(g, chat_ok, audio_ok) ==
    /\ run_pc # "done"
    /\ chat_pending[g] > 0
    /\ chat_pending' = [chat_pending EXCEPT ![g] = @ - 1]
    /\ game_states' =
          IF chat_ok
          THEN [game_states EXCEPT
                  ![g].conversation_history =
                      Append(@, [role |-> "assistant"]),
                  ![g].audio_queue =
                      IF active_game_id = g /\ audio_ok THEN @ + 1 ELSE @]
          ELSE game_states
    /\ UNCHANGED <<run_pc, active_game_id, watch_tasks, last_call>>
    /\ UNCHANGED notcs

\* ---------------------------------------------------------- MockNBAClient
\* random.randint(10, 30), both ends included
TicksFromZero == 0..MaxTick

Ticks == MinTick..MaxTick

\* the scoring of one call: random.random() < 0.4 with random.choice of
\* [2, 2, 2, 3] points for the home or the away team, or no points and a
\* random.choice of the team
Scorings == [points : {0, 2, 3}, team : {"home", "away"}]

\* f"{minutes:02d}:{seconds:02d}" of game_clock, kept as the two numbers
ClockOf(game_clock) == <<game_clock \div 60, game_clock % 60>>

\* the clock and quarter update at the head of get_play_by_play
TickClock(m, tick) ==
    IF m.game_clock - tick <= 0
    THEN [m EXCEPT !.quarter = @ + 1, !.game_clock = QuarterSeconds]
    ELSE [m EXCEPT !.game_clock = @ - tick]

\* the early return {"status": "finished"}
ReturnsFinished(m, tick) ==
    m.game_clock - tick <= 0 /\ m.quarter + 1 > LastQuarter

AddPoints(m, sc) ==
    IF sc.team = "home"
    THEN [m EXCEPT !.home_score = @ + sc.points]
    ELSE [m EXCEPT !.away_score = @ + sc.points]

\* the dict of a play (of last_play, the team is kept; the description is
\* a random template with random players of that team)
MockPlay(m, sc) ==
    [kind |-> "play", clock |-> ClockOf(m.game_clock), quarter |-> m.quarter,
     home_score |-> m.home_score, away_score |-> m.away_score, team |-> sc.team]

\* One call of MockNBAClient.get_play_by_play, tick and sc being what the
\* random module answers.
MockGetPlayByPlay(tick, sc) ==
    /\ mock_after < MaxCallsAfterFinish
    /\ mock.home_score + mock.away_score + sc.points <= MaxPoints
    /\ IF ReturnsFinished(mock, tick)
       THEN /\ mock' = TickClock(mock, tick)
            /\ mock_result' = [NoMockResult EXCEPT !.kind = "finished"]
            /\ mock_after' = IF mock_after < 0 THEN 0 ELSE mock_after + 1
       ELSE /\ mock' = AddPoints(TickClock(mock, tick), sc)
            /\ mock_result' = MockPlay(AddPoints(TickClock(mock, tick), sc), sc)
            /\ mock_after' = IF mock_after < 0 THEN mock_after ELSE mock_after + 1
    /\ UNCHANGED notmock

\* ---------------------------------------------------------- get_todays_games
\* the dates datetime.now() is drawn from, as <<year, month, day>>
Dates == {<<y, m, d>> : y \in {2026}, m \in 1..12, d \in {1, 9, 10, 28}}

DigitChars == <<"0", "1", "2", "3", "4", "5", "6", "7", "8", "9">>

\* the decimal digits of n, zero-padded to width characters (%Y, %m, %d)
RECURSIVE Padded(_, _)
Padded(n, width) ==
    IF width = 0 THEN <<>>
    ELSE Append(Padded(n \div 10, width - 1), DigitChars[(n % 10) + 1])

\* datetime.strftime with the directives %Y, %m and %d joined by sep
Strftime(date, sep) ==
    Padded(date[1], 4) \o <<sep>> \o Padded(date[2], 2) \o <<sep>> \o Padded(date[3], 2)

\* str.split(sep): the list of the pieces of s between the separators
RECURSIVE Split(_, _)
Split(s, sep) ==
    IF s = <<>> THEN <<(<<>>)>>
    ELSE LET rest == Split(Tail(s), sep)
         IN  IF Head(s) = sep
             THEN <<(<<>>)>> \o rest
             ELSE <<(<<Head(s)>> \o Head(rest))>> \o Tail(rest)

\* what the upstream answers to a schedule request: no data (an error
\* status, a timeout), or the JSON of a schedule, with or without "games"
GameLists == UNION {[1..n -> {"g1", "g2"}] : n \in 0..MaxGames}
Schedules ==
    {[ok |-> FALSE, games |-> AbsentList], [ok |-> TRUE, games |-> AbsentList]}
        \cup {[ok |-> TRUE, games |-> [present |-> TRUE, items |-> l]] : l \in GameLists}

\* schedule.get("games", [])
GamesOf(data) == IF data.games.present THEN data.games.items ELSE <<>>

NoGames == [ok |-> TRUE, games |-> [present |-> TRUE, items |-> <<>>]]

\* RealNBAClient.get_games(date) with up the upstream's answer to the
\* schedule request of the day: `year, month, day = date.split('-')` raises
\* ValueError unless there are three pieces, and the except clause answers
\* {"games": []} without a request
RealGetGames(date, up) ==
    LET parts == Split(date, "-")
    IN  IF Len(parts) # 3
        THEN [requested |-> FALSE, endpoint |-> <<>>, data |-> NoGames]
        ELSE [requested |-> TRUE,
              endpoint |-> <<"games", parts[1], parts[2], parts[3], "schedule.json">>,
              data |-> IF up.ok THEN up ELSE NoGames]

\* GameService.get_todays_games, called on the day `date` while the
\* upstream would answer `up` to that day's schedule request
GetTodaysGames(date, up) ==
    LET passed == Strftime(date, "/")
        got == RealGetGames(passed, up)
    IN  /\ todays' = [called |-> TRUE, date |-> date, passed |-> passed,
                      requested |-> got.requested, endpoint |-> got.endpoint,
                      upstream |-> up, returned |-> GamesOf(got.data)]
        /\ UNCHANGED nottodays

\* ---------------------------------------------------------- specification
Next ==
    \/ \E c \in Conns, g \in Games : Join(c, g)
    \/ \E g \in PostGames : PostStream(g)
    \/ \E c \in Conns : SendOK(c)
    \/ \E c \in Conns : SendFail(c)
    \/ \E t \in Slots, p \in Payloads : Poll(t, p)
    \/ \E t \in Slots : Cancelled(t)

Spec == Init /\ [][Next]_vars

\* the simulation client on its own
SimNext ==
    /\ sim_data = SimNoCall
    /\ \E data \in SimResponses : SimGetPlayByPlay(data)

SimSpec == Init /\ [][SimNext]_vars

\* the users routes on their own
UserNext ==
    \/ \E u \in Usernames, e \in Emails, pw \in Passwords : RegisterUser(u, e, pw)
    \/ \E u \in Usernames, pw \in Passwords : LoginForAccessToken(u, pw)

UserSpec == Init /\ [][UserNext]_vars

\* the ConnectionManager and its route on their own
CmNext ==
    \/ \E c \in Conns, g \in Games : CmOpen(c, g)
    \/ \E c \in Conns : CmReceive(c)
    \/ \E c \in Conns : CmClientGone(c)
    \/ \E c \in Conns : CmSent(c)
    \/ \E c \in Conns, exc \in {"WebSocketDisconnect", "RuntimeError"} : CmSendRaises(c, exc)

CmSpec == Init /\ [][CmNext]_vars

\* the console commentary system on its own
CsNext ==
    \/ \E g \in Games : CsSelect(g)
    \/ CsEnter
    \/ CsQuit
    \/ \E g \in Games, play \in Plays : CsProcessPlay(g, play)
    \/ \E g \in Games, chat_ok, audio_ok \in BOOLEAN : CsCommentary(g, chat_ok, audio_ok)

CsSpec == Init /\ [][CsNext]_vars

\* the mock client on its own
MockNext == \E tick \in Ticks, sc \in Scorings : MockGetPlayByPlay(tick, sc)

MockSpec == Init /\ [][MockNext]_vars

\* get_todays_games on its own
TodaysNext == \E date \in Dates, up \in Schedules : GetTodaysGames(date, up)

TodaysSpec == Init /\ [][TodaysNext]_vars

GsUntouched ==
    gsvars = <<<<>>, [t \in Slots |-> NoTask],
               [c \in Conns |-> [pc |-> "idle", game |-> None, raised |-> None]],
               [c \in Conns |-> <<>>], 0>>
SimUntouched == sim_data = SimNoCall /\ sim_result = SimNoResult
UserUntouched == uservars = <<<<>>, NoExchange, NoExchange>>
CmUntouched == cmvars = <<<<>>, [c \in Conns |-> NoHandler]>>
MockUntouched == mockvars = <<NewMock, NoMockResult, -1>>
TodaysUntouched == todays = NoTodaysCall
CsUntouched ==
    csvars = <<"menu", None, [g \in Games |-> 0], [g \in Games |-> NewGameState],
               [g \in Games |-> 0], NoCall>>

TypeOK ==
    /\ DOMAIN active_streams \subseteq Games
    /\ \A g \in DOMAIN active_streams :
          /\ active_streams[g].task \in TaskIds
          /\ tasks[active_streams[g].task].game = g
          /\ active_streams[g].subscribers \subseteq Conns
    /\ nbroadcast \in 0..MaxBroadcasts
    /\ \A c \in Conns : Len(sink[c]) <= nbroadcast
    /\ SimUntouched /\ UserUntouched /\ CmUntouched /\ CsUntouched /\ MockUntouched /\ TodaysUntouched

SimTypeOK ==
    /\ sim_data.kind \in {"none", "raises", "None", "dict"}
    /\ sim_result.type \in {"none", "error", "waiting", "play"}
    /\ GsUntouched /\ UserUntouched /\ CmUntouched /\ CsUntouched /\ MockUntouched /\ TodaysUntouched

UserTypeOK ==
    /\ \A i \in DOMAIN users :
          /\ users[i].id = i
          /\ users[i].username \in Usernames /\ users[i].email \in Emails
          /\ \A j \in DOMAIN users :
                i # j => /\ users[i].username # users[j].username
                         /\ users[i].email # users[j].email
    /\ http.route \in {"none", "register", "token"}
    /\ http_prev.route \in {"none", "register", "token"}
    /\ GsUntouched /\ SimUntouched /\ CmUntouched /\ CsUntouched /\ MockUntouched /\ TodaysUntouched

CmTypeOK ==
    /\ DOMAIN active_connections \subseteq Games
    /\ \A g \in DOMAIN active_connections : active_connections[g] \subseteq Conns
    /\ \A c \in Conns :
          /\ ws[c].pc \in {"idle", "recv", "send", "failed", "closed"}
          /\ ws[c].pc = "send" => ws[c].target \in ws[c].start
          /\ ws[c].visited \subseteq ws[c].start
    /\ GsUntouched /\ SimUntouched /\ UserUntouched /\ CsUntouched /\ MockUntouched /\ TodaysUntouched

CsTypeOK ==
    /\ run_pc \in {"menu", "watching", "done"}
    /\ active_game_id \in Games \cup {None}
    /\ \A g \in Games :
          /\ watch_tasks[g] \in 0..MaxSelections
          /\ chat_pending[g] \in 0..MaxPlays
          /\ Len(game_states[g].conversation_history) <= 1 + 2 * MaxPlays
          /\ game_states[g].audio_queue \in 0..MaxPlays
    /\ GsUntouched /\ SimUntouched /\ UserUntouched /\ CmUntouched /\ MockUntouched /\ TodaysUntouched

MockTypeOK ==
    /\ mock.game_clock \in 1..QuarterSeconds
    /\ mock.quarter >= 1
    /\ mock.home_score + mock.away_score \in 0..MaxPoints
    /\ mock_result.kind \in {"none", "finished", "play"}
    /\ mock_after \in -1..MaxCallsAfterFinish
    /\ GsUntouched /\ SimUntouched /\ UserUntouched /\ CmUntouched /\ CsUntouched
    /\ TodaysUntouched

TodaysTypeOK ==
    /\ todays.called \in BOOLEAN
    /\ todays.requested \in BOOLEAN
    /\ Len(todays.returned) \in 0..MaxGames
    /\ GsUntouched /\ SimUntouched /\ UserUntouched /\ CmUntouched /\ CsUntouched
    /\ MockUntouched

\* ------------------------------------------------------ shared vocabulary
\* the handler of connection c has joined game g and has not left
Joined(c, g) == conn[c].pc = "get" /\ conn[c].game = g

\* queue c is in the subscriber set of g's channel
Registered(c, g) == g \in DOMAIN active_streams /\ c \in active_streams[g].subscribers

\* this step is the handler of connection c joining game g
JoinStep(c, g) == conn[c].pc = "idle" /\ conn'[c].pc = "get" /\ conn'[c].game = g

\* this step is the handler of connection c leaving (remove_subscriber ran)
LeaveStep(c) == conn[c].pc = "get" /\ conn'[c].pc = "closed"

\* the payloads the loop classifies FINISHED, and those it classifies
\* ACTIVE, WAITING or NOT_FOUND
FinishedPayloads ==
    {p \in Payloads \ {NullPayload} : Classify(p) = "FINISHED"}
UpdatePayloads ==
    {p \in Payloads \ {NullPayload} : Classify(p) \in {"ACTIVE", "WAITING", "NOT_FOUND"}}

\* the payloads of the default branch, and those whose status (as the loop
\* reads it) is error, not_found
ActivePayloads == {p \in Payloads \ {NullPayload} : Classify(p) = "ACTIVE"}
ErrorPayloads == {p \in Payloads \ {NullPayload} : StatusOf(p) = "error"}
NotFoundPayloads == {p \in Payloads \ {NullPayload} : StatusOf(p) = "not_found"}

\* this step is a loop turn of task t on the dict p that reaches the
\* broadcast of p's branch (the game's entry is in the map). A turn that
\* puts an item on a queue counts in nbroadcast, and one that does not
\* either changes the task or leaves the whole state as it was.
BroadcastStep(t, p) ==
    /\ tasks[t].game \in DOMAIN active_streams
    /\ nbroadcast' # nbroadcast \/ tasks'[t] # tasks[t]
    /\ Poll(t, p)

\* ------------------------------------------------------------------ claims

\* C1: for every game id, in every reachable state, at most one polling
\* task that has not yet terminated exists for that game id.
C1_AtMostOneLiveTask ==
    \A g \in Games :
        Cardinality({t \in TaskIds : tasks[t].game = g /\ Live(t)}) <= 1

\* C2: a channel entry with zero subscribers does not survive the next
\* step: after that step its entry is gone and its task is cancelled or
\* has ended.
C2_EmptyChannelGone ==
    [][\A g \in Games :
          (g \in DOMAIN active_streams /\ active_streams[g].subscribers = {})
          => /\ g \notin DOMAIN active_streams'
             /\ LET t == active_streams[g].task IN
                tasks'[t].must_cancel \/ tasks'[t].pc = "none"]_vars

\* C3: a WebSocket join of a game that has no channel creates the channel,
\* starts its polling task and leaves the joining client's queue in the
\* channel's subscriber set.
C3_JoinRegisters ==
    [][\A c \in Conns, g \in Games :
          (JoinStep(c, g) /\ g \notin DOMAIN active_streams)
          => /\ g \in DOMAIN active_streams'
             /\ tasks'[active_streams'[g].task].pc = "new"
             /\ c \in active_streams'[g].subscribers]_vars

\* C4: remove_subscriber never raises: no handler ever ends with an error
\* raised by its remove_subscriber call.
C4_RemoveNeverRaises ==
    \A c \in Conns : conn[c].raised = None

\* C5: when two clients have joined the same game and one of them leaves,
\* the channel stays in the map with the same polling task, the task is
\* neither cancelled nor ended by the leave, and the other client stays
\* registered for the following broadcasts.
C5_LeaveOfOneKeepsStream ==
    [][\A c, d \in Conns, g \in Games :
          (/\ c # d
           /\ Joined(c, g) /\ Joined(d, g)
           /\ g \in DOMAIN active_streams
           /\ LeaveStep(c))
          => /\ g \in DOMAIN active_streams'
             /\ active_streams'[g].task = active_streams[g].task
             /\ tasks'[active_streams[g].task] = tasks[active_streams[g].task]
             /\ d \in active_streams'[g].subscribers]_vars

\* C6: a leave that removes the last registered sink of a channel cancels
\* the channel's task once and deletes the entry in that same step, and an
\* entry leaves the map only in such a step or in a loop turn that
\* classified its payload FINISHED.
C6_RemovalOnlyWhenEmptyOrFinished ==
    [][\A g \in Games :
          /\ \A c \in Conns :
                (LeaveStep(c) /\ conn[c].game = g /\ Registered(c, g)
                 /\ active_streams[g].subscribers = {c})
                => /\ g \notin DOMAIN active_streams'
                   /\ LET t == active_streams[g].task IN
                      Live(t) => /\ tasks'[t].must_cancel
                                 /\ tasks'[t].ncancel = 1
          /\ (g \in DOMAIN active_streams /\ g \notin DOMAIN active_streams')
             => \/ \E c \in Conns :
                      /\ LeaveStep(c) /\ conn[c].game = g
                      /\ active_streams[g].subscribers = {c}
                \/ \E t \in TaskIds, p \in FinishedPayloads :
                      /\ tasks[t].game = g
                      /\ BroadcastStep(t, p)]_vars

\* C7: a loop turn that classifies its payload FINISHED puts exactly one
\* game_over message on every sink registered in the game's channel and on
\* no other sink, the entry is gone once they have it, and the loop has
\* ended, so that it never puts anything on a sink again.
C7_FinishedBroadcastsGameOver ==
    [][\A t \in TaskIds, p \in FinishedPayloads :
             BroadcastStep(t, p)
             => LET g == tasks[t].game
                    subs == active_streams[g].subscribers
                IN  /\ \A c \in subs : sink'[c] = Append(sink[c], GameOverMsg)
                    /\ \A c \in Conns \ subs : sink'[c] = sink[c]
                    /\ g \notin DOMAIN active_streams'
                    /\ tasks'[t].pc = "none"]_vars

\* C7 witness: two joined clients of a game hold the game_over message
\* as the last item of their queues, and the game's entry and task are
\* gone.
C7_Witness ==
    \E c, d \in Conns, g \in Games :
        /\ c # d
        /\ g \notin DOMAIN active_streams
        /\ \A t \in TaskIds : tasks[t].game # g
        /\ Joined(c, g) /\ Joined(d, g)
        /\ sink[c] # <<>> /\ sink[c][Len(sink[c])] = GameOverMsg
        /\ sink[d] # <<>> /\ sink[d][Len(sink[d])] = GameOverMsg

\* C8: every payload whose "type" is finished or game_over makes the loop
\* take its FINISHED branch, whatever its "status" key holds: the turn
\* that fetched it ends the loop.
C8_TypeFinishedIsFinished ==
    [][\A t \in TaskIds, p \in Payloads \ {NullPayload} :
          (p.type \in {"finished", "game_over"} /\ Poll(t, p))
          => Classify(p) = "FINISHED" /\ tasks'[t].pc = "none"]_vars

\* C9: two clients joined to the same game receive the same updates: every
\* loop turn taken while both are joined puts the same items on both
\* queues.
C9_SameUpdatesForBoth ==
    [][\A c, d \in Conns, g \in Games :
          (/\ c # d
           /\ Joined(c, g) /\ Joined(d, g)
           /\ \E t \in TaskIds, p \in Payloads : Poll(t, p))
          => \/ sink'[c] = sink[c] /\ sink'[d] = sink[d]
             \/ \E m \in Messages :
                   /\ sink'[c] = Append(sink[c], m)
                   /\ sink'[d] = Append(sink[d], m)]_vars

\* C10: a loop turn classified ACTIVE, WAITING or NOT_FOUND puts exactly one
\* message on every sink registered at that time, behind the items already
\* there, and the task is back in its sleep when the step ends (so before
\* its next fetch); a queue only ever grows at its tail and shrinks at its
\* head, so each sink hands the messages over in the order the loop
\* produced them.
C10_OneMessagePerPollFifo ==
    [][/\ \A t \in TaskIds, p \in UpdatePayloads :
             BroadcastStep(t, p)
             => LET subs == active_streams[tasks[t].game].subscribers IN
                /\ \E m \in Messages :
                      \A c \in subs : sink'[c] = Append(sink[c], m)
                /\ \A c \in Conns \ subs : sink'[c] = sink[c]
                /\ tasks'[t].pc = "sleep"
       /\ \A c \in Conns :
             \/ sink'[c] = sink[c]
             \/ Len(sink'[c]) = Len(sink[c]) + 1
                /\ SubSeq(sink'[c], 1, Len(sink[c])) = sink[c]
             \/ sink[c] # <<>> /\ sink'[c] = Tail(sink[c])
             \/ LeaveStep(c) /\ sink'[c] = <<>>]_vars

\* C10 witness: two registered sinks of one game hold the same two
\* different messages, in the same order, while the game's task sleeps.
C10_Witness ==
    \E c, d \in Conns, g \in Games :
        /\ c # d
        /\ Registered(c, g) /\ Registered(d, g)
        /\ tasks[active_streams[g].task].pc = "sleep"
        /\ Len(sink[c]) = 2
        /\ sink[c][1] # sink[c][2]
        /\ sink[d] = sink[c]

\* C11: a loop turn whose fetch failed (get_play_by_play returned None) is
\* an ERROR turn: it puts nothing on any sink, leaves the channel map alone
\* and leaves the task suspended in its sleep, ready for the next poll.
C11_NullFetchIsError ==
    [][\A t \in Slots :
          Poll(t, NullPayload)
          => /\ sink' = sink
             /\ active_streams' = active_streams
             /\ tasks'[t].pc = "sleep"]_vars

C13_NoPeriodsIsWaiting ==
    (sim_data.kind = "dict" /\ GetListOr(sim_data.periods, <<>>) = <<>>)
    => sim_result.type = "waiting"

\* C14: classification is total: whatever the fetch returned, None
\* included, a loop turn that reaches its branch ends with the task
\* suspended in its sleep, or ended because the payload was FINISHED; no
\* payload ends the loop through an exception.
C14_ClassificationTotal ==
    [][\A t \in Slots, p \in Payloads :
          BroadcastStep(t, p)
          => \/ tasks'[t].pc = "sleep"
             \/ p \in FinishedPayloads /\ tasks'[t].pc = "none"]_vars

\* C15: a loop turn classified ACTIVE puts on every registered sink a
\* record whose type is "play".
C15_ActiveSendsPlayRecord ==
    [][\A t \in Slots, p \in ActivePayloads :
          BroadcastStep(t, p)
          => \A c \in active_streams[tasks[t].game].subscribers :
                /\ sink'[c] # <<>>
                /\ sink'[c][Len(sink'[c])].type = "play"]_vars

\* C16: every item in every subscriber queue has a type among play,
\* waiting, game_over and error, and every item of type waiting has a
\* message.
C16_MessagesAreTyped ==
    \A c \in Conns : \A i \in 1..Len(sink[c]) :
        /\ sink[c][i].type \in {"play", "waiting", "game_over", "error"}
        /\ sink[c][i].type = "waiting" => sink[c][i].message # None

\* C17: the teardown of a channel never touches a channel created after
\* it began: a step in which a task ends removes no map entry whose task is
\* another task.
C17_TeardownSparesFreshChannel ==
    [][\A t \in Slots :
          (tasks[t].pc # "none" /\ tasks'[t].pc = "none")
          => \A g \in DOMAIN active_streams :
                active_streams[g].task # t => g \in DOMAIN active_streams']_vars

\* C18: once remove_subscriber has cancelled a task, the only step that
\* task takes is its end, and that step puts nothing on any sink; the leave
\* that cancelled it ends without an error raised by remove_subscriber.
C18_CancelStopsQuietly ==
    [][/\ \A t \in Slots :
             tasks[t].must_cancel
             => \/ tasks'[t] = tasks[t]
                \/ tasks'[t] = NoTask /\ sink' = sink
       /\ \A t \in Slots, c \in Conns :
             (LeaveStep(c) /\ ~tasks[t].must_cancel /\ tasks'[t].must_cancel)
             => conn'[c].raised = None]_vars

\* C18 witness: a leave has emptied the subscriber set of a channel whose
\* task was asleep: the task is cancelled, once, and the handler that left
\* ended without an error.
C18_Witness ==
    \E t \in Slots, c \in Conns :
        /\ tasks[t].must_cancel /\ tasks[t].ncancel = 1
        /\ tasks[t].pc = "sleep"
        /\ conn[c].pc = "closed" /\ conn[c].game = tasks[t].game
        /\ conn[c].raised = None

C20_StartIsIdempotent ==
    [][/\ \A g \in DOMAIN active_streams :
             /\ StartStreams(active_streams, tasks, g) = active_streams
             /\ StartTasks(active_streams, tasks, g) = tasks
       /\ \A c \in Conns, g \in DOMAIN active_streams :
             JoinStep(c, g)
             => /\ tasks' = tasks
                /\ g \in DOMAIN active_streams'
                /\ active_streams'[g].task = active_streams[g].task
                /\ active_streams[g].subscribers \subseteq active_streams'[g].subscribers
       /\ \A t \in Slots :
             (tasks[t].pc = "none" /\ tasks'[t].pc # "none")
             => /\ tasks'[t].pc = "new"
                /\ \E g \in Games :
                      /\ g \notin DOMAIN active_streams
                      /\ g \in DOMAIN active_streams'
                      /\ active_streams'[g] = [task |-> t, subscribers |-> {}]
                      /\ tasks'[t].game = g]_vars

\* C20 witness: two clients joined a game one after the other; the second
\* join called start_game_stream on the existing channel, whose task is the
\* one task of the game and whose subscriber set holds the second client.
C20_Witness ==
    \E c, d \in Conns, g \in Games :
        /\ c # d
        /\ Joined(c, g) /\ Joined(d, g)
        /\ Registered(d, g)
        /\ Cardinality({t \in TaskIds : tasks[t].game = g}) = 1

\* C21: add_subscriber touches nothing but the subscriber set of its own
\* game's channel: applied in any reachable state it returns the map
\* unchanged when the game has no channel, never adds or removes a key,
\* leaves every other game's entry as it is, and in its own game's entry
\* keeps the task and adds exactly the given queue.
C21_AddSubscriberFrame ==
    \A q \in Conns, g \in Games :
        LET as1 == AddSubscriber(active_streams, g, q) IN
        /\ DOMAIN as1 = DOMAIN active_streams
        /\ g \notin DOMAIN active_streams => as1 = active_streams
        /\ \A h \in DOMAIN active_streams \ {g} : as1[h] = active_streams[h]
        /\ g \in DOMAIN active_streams
           => /\ as1[g].task = active_streams[g].task
              /\ as1[g].subscribers = active_streams[g].subscribers \cup {q}

\* C21 witness: a client is registered in one game's channel while the
\* other game has a channel of its own, with its own task, that the client
\* is not in.
C21_Witness ==
    \E c \in Conns, g, h \in Games :
        /\ g # h
        /\ Registered(c, g)
        /\ h \in DOMAIN active_streams
        /\ c \notin active_streams[h].subscribers
        /\ active_streams[h].task # active_streams[g].task

\* C29 (as stated): whenever POST /register for a user answered 200 or 400,
\* the POST /token that follows with the same username and password answers
\* 200 with an access token, whatever the users table held before.
C29_LoginAfterRegister ==
    (/\ http_prev.route = "register"
     /\ http_prev.status \in {200, 400}
     /\ http.route = "token"
     /\ http.username = http_prev.username
     /\ http.password = http_prev.password)
    => http.status = 200 /\ http.sub # Absent

\* the users table holds a row of that username whose hash is of that password
StoredWith(u, pw) ==
    \E i \in DOMAIN users :
        users[i].username = u /\ VerifyPassword(pw, users[i].hashed_password)

\* C29 (amended): whenever POST /register answered 200, or answered 400
\* while the table holds a row of that username stored with that password,
\* the POST /token that follows with the same username and password answers
\* 200 with an access token for that username.
C29_LoginAfterRegisterOfStoredUser ==
    (/\ http_prev.route = "register"
     /\ \/ http_prev.status = 200
        \/ http_prev.status = 400 /\ StoredWith(http_prev.username, http_prev.password)
     /\ http.route = "token"
     /\ http.username = http_prev.username
     /\ http.password = http_prev.password)
    => http.status = 200 /\ http.sub = http.username

\* C29 witness: a register answered 400 for a user that is already in the
\* table, and the login that followed with the same credentials answered 200.
C29_Witness ==
    /\ http_prev.route = "register" /\ http_prev.status = 400
    /\ http.route = "token" /\ http.status = 200
    /\ http.username = http_prev.username
    /\ http.password = http_prev.password
    /\ Len(users) = 2

\* this step is one turn of task t's polling loop or its end by cancellation
LoopStep(t) ==
    /\ tasks'[t] # tasks[t] \/ nbroadcast' # nbroadcast
    /\ conn' = conn
    /\ Cancelled(t) \/ \E p \in Payloads : Poll(t, p)

\* C22: a step of game G's polling loop (a turn of any outcome, its end by
\* FINISHED, by an uncaught error or by cancellation) leaves every other
\* game's map entry (its presence, task and subscriber set), the tasks of
\* every other game and the queues registered in other games' channels as
\* they were.
C22_ChannelsIsolated ==
    [][\A t \in Slots :
          LoopStep(t) =>
             \A h \in Games \ {tasks[t].game} :
                /\ (h \in DOMAIN active_streams') = (h \in DOMAIN active_streams)
                /\ h \in DOMAIN active_streams
                   => /\ active_streams'[h] = active_streams[h]
                      /\ \A c \in active_streams[h].subscribers : sink'[c] = sink[c]
                /\ \A u \in Slots : tasks[u].game = h => tasks'[u] = tasks[u]]_vars

\* C22 witness: one game's loop has ended on an uncaught error, its entry
\* is gone while its client is still connected, and the other game's
\* channel is in the map with its running task and its subscriber.
C22_Witness ==
    \E g, h \in Games, c, d \in Conns :
        /\ g # h
        /\ Joined(c, g)
        /\ g \notin DOMAIN active_streams
        /\ \A t \in Slots : tasks[t].game # g
        /\ Joined(d, h)
        /\ h \in DOMAIN active_streams
        /\ tasks[active_streams[h].task].pc = "sleep"

LoopEndStep(t) ==
    /\ tasks[t].pc # "none" /\ tasks'[t].pc = "none"
    /\ ~tasks[t].must_cancel
    /\ \E p \in Payloads : Poll(t, p)

\* C24: when a game's loop has ended by FINISHED or by an uncaught error the
\* map holds no entry for the game, and start_game_stream called in that
\* state makes a fresh channel: an entry with an empty subscriber set and a
\* task created for the game in a free slot, not yet run and not cancelled.
C24_EndedChannelIsRecreated ==
    [][\A t \in Slots :
          LoopEndStep(t) =>
             LET g == tasks[t].game
                 as2 == StartStreams(active_streams', tasks', g)
                 ts2 == StartTasks(active_streams', tasks', g)
             IN  /\ g \notin DOMAIN active_streams'
                 /\ g \in DOMAIN as2
                 /\ as2[g].subscribers = {}
                 /\ tasks'[as2[g].task].pc = "none"
                 /\ ts2[as2[g].task] = NewTask(g)
                 /\ \A h \in DOMAIN active_streams' : as2[h] = active_streams'[h]]_vars

\* C24 witness: a client still holds the game_over message that ended its
\* game's loop, and the game has a channel again, with a task that has not
\* run yet and an empty subscriber set.
C24_Witness ==
    \E c \in Conns, g \in Games :
        /\ Joined(c, g)
        /\ sink[c] # <<>> /\ sink[c][Len(sink[c])] = GameOverMsg
        /\ g \in DOMAIN active_streams
        /\ active_streams[g].subscribers = {}
        /\ tasks[active_streams[g].task] = NewTask(g)

\* C25: the loop suspends while its fetch is in flight: the step in which a
\* task wakes (from its creation or from its sleep) and issues the fetch
\* ends at that suspension point, so it delivers nothing and ends no task;
\* the result is handled in a later step, before which joins, leaves and a
\* cancellation can be taken.
C25_FetchIsSuspensionPoint ==
    [][\A t \in Slots :
          (\E p \in Payloads : Poll(t, p))
          => /\ sink' = sink
             /\ tasks'[t].pc # "none"
             /\ active_streams' = active_streams]_vars

\* C26: a sink that is not consumed does not hold the loop up: in every
\* loop turn that delivers while some registered sink of the channel still
\* holds earlier items, the new message is appended to every registered
\* sink of the channel, the backlogged ones and the others alike, and the
\* turn completes (the task is back in its sleep, or has ended on FINISHED).
C26_BacklogNeverBlocks ==
    [][\A t \in TaskIds, p \in UpdatePayloads \cup FinishedPayloads :
          (/\ tasks[t].game \in DOMAIN active_streams
           /\ \E c \in active_streams[tasks[t].game].subscribers : sink[c] # <<>>
           /\ BroadcastStep(t, p))
          => /\ \A d \in active_streams[tasks[t].game].subscribers :
                   /\ sink'[d] = sink[d] \o <<MessageFor(p)>>
                   /\ Len(sink'[d]) = Len(sink[d]) + 1
             /\ tasks'[t].pc = IF p \in FinishedPayloads THEN "none" ELSE "sleep"]_vars

\* C26 witness: of two registered sinks of one game, one was never consumed
\* and holds every message broadcast so far, the other was consumed and
\* holds only the latest one, and the task is in its sleep before the next
\* poll.
C26_Witness ==
    \E c, d \in Conns, g \in Games :
        /\ c # d
        /\ Registered(c, g) /\ Registered(d, g)
        /\ nbroadcast >= 2
        /\ Len(sink[c]) = nbroadcast
        /\ Len(sink[d]) = 1
        /\ sink[d][1] = sink[c][Len(sink[c])]
        /\ tasks[active_streams[g].task].pc = "sleep"

\* C27: no add_subscriber or remove_subscriber takes effect part-way
\* through a broadcast: a step is a delivering loop turn of a task only if
\* it is one step in which no handler moves, the queues that change are
\* exactly the subscriber set as it was when the turn began, and that set
\* is still the same when the turn ends; a step that changes a channel's
\* subscriber set appends to no queue.
C27_BroadcastToSetAtStart ==
    [][/\ \A t \in TaskIds :
             \/ /\ tasks[t].game \in DOMAIN active_streams
                /\ {c \in Conns : sink'[c] # sink[c]}
                      = active_streams[tasks[t].game].subscribers
                /\ conn' = conn
                /\ tasks[t].game \in DOMAIN active_streams'
                   => active_streams'[tasks[t].game].subscribers
                         = active_streams[tasks[t].game].subscribers
             \/ \A p \in UpdatePayloads \cup FinishedPayloads : ~BroadcastStep(t, p)
       /\ \A g \in DOMAIN active_streams \cap DOMAIN active_streams' :
             active_streams'[g].subscribers # active_streams[g].subscribers
             => \A c \in Conns : Len(sink'[c]) <= Len(sink[c])]_vars

\* C27 witness: a channel's one registered sink holds every message
\* broadcast so far, while a client connected to the same game whose queue
\* is not in the subscriber set has received none of them.
C27_Witness ==
    \E c, d \in Conns, g \in Games :
        /\ Registered(c, g)
        /\ Joined(d, g) /\ ~Registered(d, g)
        /\ nbroadcast >= 2
        /\ Len(sink[c]) = nbroadcast
        /\ sink[d] = <<>>

\* the largest "number" among the periods of a response, and the places of
\* the periods that carry it
TopNumber(ps) ==
    CHOOSE n \in {ps[i].number : i \in DOMAIN ps} :
        \A i \in DOMAIN ps : ps[i].number <= n
TopPeriods(ps) == {i \in DOMAIN ps : ps[i].number = TopNumber(ps)}

\* C28: for a response with a non-empty periods list in which the
\* highest-numbered period has at least one event, the formatter returns a
\* record of type play whose quarter is that highest number and whose clock
\* and description are those of the last event of that period (the clock
\* default when the event has no clock); when that event has no description
\* the description is the placeholder and the record is still of type play.
C28_LastEventOfHighestPeriod ==
    (/\ sim_data.kind = "dict"
     /\ sim_data.periods.present
     /\ sim_data.periods.items # <<>>
     /\ TopNumber(sim_data.periods.items) # AbsentNum
     /\ \A i \in TopPeriods(sim_data.periods.items) :
           /\ sim_data.periods.items[i].events.present
           /\ sim_data.periods.items[i].events.items # <<>>)
    => /\ sim_result.type = "play"
       /\ sim_result.quarter = TopNumber(sim_data.periods.items)
       /\ \E i \in TopPeriods(sim_data.periods.items) :
             LET evs == sim_data.periods.items[i].events.items
                 ev == evs[Len(evs)]
             IN  /\ sim_result.clock = IF ev.clock = Absent THEN "00:00" ELSE ev.clock
                 /\ sim_result.description[1] = ev.player
                 /\ sim_result.description[2] =
                        IF ev.description = Absent
                        THEN "No description available" ELSE ev.description

\* C28 witness: the response lists period 3 before period 1, period 3 ends
\* with an event that has no description, and the record returned is a play
\* of quarter 3 with the placeholder for its description.
C28_Witness ==
    /\ sim_data.kind = "dict"
    /\ sim_data.periods.present
    /\ Len(sim_data.periods.items) = 2
    /\ sim_data.periods.items[1].number = 3
    /\ sim_data.periods.items[2].number = 1
    /\ sim_data.periods.items[1].events = List(<<EvShot, EvBare>>)
    /\ sim_data.periods.items[2].events = List(<<EvShot>>)
    /\ sim_result.type = "play"
    /\ sim_result.quarter = 3
    /\ sim_result.description[2] = "No description available"

\* C30: the cleanup of an ending task removes only that task's own entry:
\* whenever a map entry disappears in the step in which a task ends (by
\* cancellation, FINISHED or an error), the entry's task was the ending
\* task, and not a task created for the same game after the ending task's
\* entry had been removed.
C30_CleanupRemovesOwnEntryOnly ==
    [][\A g \in DOMAIN active_streams :
          (/\ g \notin DOMAIN active_streams'
           /\ conn' = conn
           /\ \E t \in Slots : tasks[t].pc # "none" /\ tasks'[t].pc = "none")
          => /\ tasks[active_streams[g].task].pc # "none"
             /\ tasks'[active_streams[g].task].pc = "none"]_vars

\* C31: every polling task that has neither ended nor been cancelled is the
\* task stored in the map entry of its game: no task keeps fetching for a
\* game whose entry is gone or refers to another task.
C31_RunningTaskIsInMap ==
    \A t \in TaskIds :
        ~tasks[t].must_cancel
        => /\ tasks[t].game \in DOMAIN active_streams
           /\ active_streams[tasks[t].game].task = t

\* C32: whenever a loop stops for a reason other than cancellation, every
\* sink registered in its channel at that time holds, when the entry is
\* removed, a terminal message (game_over or error) as its latest item.
C32_StopSendsTerminalMessage ==
    [][\A t \in Slots :
          (LoopEndStep(t) /\ tasks[t].game \in DOMAIN active_streams)
          => \A c \in active_streams[tasks[t].game].subscribers :
                /\ sink'[c] # <<>>
                /\ sink'[c][Len(sink'[c])].type \in {"game_over", "error"}]_vars

\* connection c is registered for game g: its handler has run connect and
\* has not run disconnect
CmRegistered(c, g) ==
    /\ ws[c].game = g
    /\ ws[c].pc # "idle"
    /\ ws[c].phase = "try"

\* C33: active_connections never maps a game id to an empty set: a game id
\* is a key exactly when at least one connection is registered for it, the
\* key's set is the set of those connections, and so the disconnect of the
\* last one has removed the key.
C33_NoEmptyConnectionSet ==
    \A g \in Games :
        /\ (g \in DOMAIN active_connections) = (\E c \in Conns : CmRegistered(c, g))
        /\ g \in DOMAIN active_connections
           => /\ active_connections[g] # {}
              /\ active_connections[g] = {c \in Conns : CmRegistered(c, g)}

\* C33 witness: the only connection of one game has disconnected and its
\* game is no key any more, while the other game is a key with its
\* connection.
C33_Witness ==
    \E c, d \in Conns, g, h \in Games :
        /\ g # h
        /\ ws[c].game = g /\ ws[c].pc = "closed"
        /\ g \notin DOMAIN active_connections
        /\ h \in DOMAIN active_connections
        /\ active_connections[h] = {d}

\* C34: a broadcast delivers to every connection that was registered for
\* the game when it began and completes without error, whatever connect
\* and disconnect calls of other connections take place while one of its
\* sends is awaited: no step of a broadcast whose sends all succeed ends
\* in an exception, and a broadcast that is over has sent to exactly the
\* set it began with.
C34_BroadcastCompletes ==
    [][\A c \in Conns :
          (ws[c].pc = "send" /\ CmSent(c))
          => /\ ws'[c].pc # "failed"
             /\ ws'[c].pc # "send" => ws[c].visited \cup {ws[c].target} = ws[c].start]_vars

\* C35: process_play skips a play if and only if its id equals the id of
\* the most recently processed play of the game, so the first play observed
\* for a game is always processed; and a call that skips leaves the
\* GameState (last_play_id, period, scores, history, audio queue) as it was.
C35_SkipsOnlyRepeatedPlay ==
    /\ [](last_call.called
           => (last_call.skipped
                 <=> /\ last_call.processed_before > 0
                     /\ last_call.id = last_call.prev_id))
    /\ [][(last_call' # last_call /\ last_call'.skipped)
             => game_states' = game_states]_vars

\* C36: at most one watch_game task (with its audio-player task) exists per
\* game at any time: back in the menu and after a new selection, no watch
\* task of an earlier selection is still there.
C36_OneWatchTaskPerGame ==
    \A g \in Games : watch_tasks[g] <= 1

\* C37: the finished status of the mock client is absorbing: once
\* get_play_by_play has returned {"status": "finished"}, every later call
\* returns finished too, and never a play of a quarter beyond the fourth.
C37_FinishedIsAbsorbing ==
    mock_after >= 0
    => /\ mock_result.kind = "finished"
       /\ mock_result.quarter <= LastQuarter

\* the calls of get_play_by_play one quarter takes at most: the clock loses
\* at least MinTick of its QuarterSeconds with every call
CallsPerQuarter == (QuarterSeconds + MinTick - 1) \div MinTick

\* an upper bound of the calls still to make until "finished" is returned
CallsLeft(m) ==
    (LastQuarter - m.quarter) * CallsPerQuarter
        + (m.game_clock + MinTick - 1) \div MinTick

\* C38: whatever the random choices, get_play_by_play returns "finished"
\* after a bounded number of calls (a call that does not return it lowers
\* CallsLeft, a natural number that starts at LastQuarter * CallsPerQuarter,
\* and a call made with CallsLeft at 1 returns it), and until then the
\* home_score, away_score and quarter it reports never decrease from one
\* call to the next.
C38_FinishesAndNeverDecreases ==
    /\ [](mock_after < 0 => CallsLeft(mock) \in 1..(LastQuarter * CallsPerQuarter))
    /\ [][(mock_after < 0 /\ mock_result' # mock_result)
            => \/ mock_result'.kind = "finished"
               \/ /\ mock_result'.kind = "play"
                  /\ CallsLeft(mock') < CallsLeft(mock)
                  /\ mock_result.kind = "play"
                     => /\ mock_result'.home_score >= mock_result.home_score
                        /\ mock_result'.away_score >= mock_result.away_score
                        /\ mock_result'.quarter >= mock_result.quarter]_vars

\* "finished" has been returned after plays that scored for both teams
C38_Witness ==
    /\ mock_after = 0
    /\ mock_result.kind = "finished"
    /\ mock.home_score > 0
    /\ mock.away_score > 0

\* C39: whenever the upstream answers the schedule request of the day
\* successfully, get_todays_games returns the games list of that answer:
\* the date string it passes has the form get_games accepts (three pieces
\* between '-'), so the request for that day's schedule is made.
C39_TodaysGamesReturned ==
    (todays.called /\ todays.upstream.ok)
    => /\ Len(Split(todays.passed, "-")) = 3
       /\ todays.requested
       /\ todays.endpoint = <<"games", Padded(todays.date[1], 4), Padded(todays.date[2], 2),
                               Padded(todays.date[3], 2), "schedule.json">>
       /\ todays.returned = GamesOf(todays.upstream)

=============================================================================
